---- MODULE Spec2Model ----
(***************************************************************************)
(* Model of the docs-rag ingestion pipeline:                               *)
(*   fetch_docs.py   write_if_changed (change detection on disk)           *)
(*   chunk_docs.py   chunk_one_file, main (segmenting, chunk store)        *)
(*   build_index.py  embed_texts, main (batched embedding, index + meta)   *)
(* A file on disk is a sequence of length at most one: <<>> when the path  *)
(* does not exist, <<c>> when it exists with contents c.                   *)
(***************************************************************************)
EXTENDS Integers, Sequences, FiniteSets, TLC

VARIABLES
    \* ---- fetch_docs.py ----
    dst_file,        \* the destination file  dst
    metainfo_file,   \* the side file  dst + ".meta.json"
    last_call,       \* <<>> or <<record of the last write_if_changed call>>
    \* ---- chunk_docs.py: chunk_one_file on its own ----
    seg_in,          \* the arguments (rel, source_url) and the file at RAW_DIR / rel
    seg_out,         \* <<>> or <<the sequence of records the generator yielded>>
    \* ---- chunk_docs.py: main ----
    manifest_file,   \* MANIFEST_PATH: a file holding the sequence of manifest lines
    raw,             \* RAW_DIR: rel -> file
    out_file,        \* OUT_PATH (data/chunks.jsonl): a file holding a sequence of records
    tmp_file,        \* tmp_path (data/chunks.tmp.jsonl)
    cpc,             \* position of main: "start", "loop", "done", "aborted"
    line_no,         \* the manifest line the loop reads next
    total_chunks,    \* the counter of line 76
    cerror,          \* why main raised: "", "manifest", "line", "document", "rename"
    prev_out,        \* OUT_PATH as it was when main started
    \* ---- build_index.py: main ----
    chunks_file,     \* CHUNKS_PATH (data/chunks.jsonl)
    index_file,      \* vector_store/index.faiss: a file holding the vectors, in add order
    meta_file,       \* vector_store/meta.pkl: a file holding [ids, model]
    ipc,             \* position of main: "start", "embed", "build", "save_index",
                     \*   "save_meta", "done", "failed"
    ids,             \* the list ids
    texts,           \* the list texts
    offset,          \* the loop variable i of line 50
    all_vecs,        \* the list all_vecs, one array per batch
    X,               \* the matrix X, a sequence of rows
    index,           \* the vectors of the FAISS index, in add order
    ierror,          \* why main raised: "", "chunks", "embed", "stack", "interrupted"
    requests,        \* the offsets of the batches sent to embeddings.create, in order
    pre_index,       \* index.faiss as it was when main started
    pre_meta         \* meta.pkl as it was when main started

fetch_vars == <<dst_file, metainfo_file, last_call>>
seg_vars == <<seg_in, seg_out>>
chunk_vars == <<manifest_file, raw, out_file, tmp_file, cpc, line_no, total_chunks,
                cerror, prev_out>>
index_vars == <<chunks_file, index_file, meta_file, ipc, ids, texts, offset, all_vecs,
                X, index, ierror, requests, pre_index, pre_meta>>
vars == <<fetch_vars, seg_vars, chunk_vars, index_vars>>

Absent == <<>>
File(c) == <<c>>
Exists(f) == f # Absent
Data(f) == f[1]

(***************************************************************************)
(* fetch_docs.py                                                           *)
(***************************************************************************)
MaxContent == 3
Contents == 0 .. MaxContent
SourceUrls == {"blob/docs/a.md", "blob/docs/a.mdx"}

\* hashlib.sha256 as a digest function of the content.  It is many-to-one
\* here (0 and 3 collide): nothing below relies on the absence of collisions.
sha256_bytes(b) == ((b * 5) + 1) % 3

\* The dict written to the .meta.json file.
MetaInfo(url, h) == [source_url |-> url, sha256 |-> h]

\* A variant of IsUnchanged that looks at the destination only.
IsUnchangedIfPresent(dst, meta, content) == Exists(dst)

\* Lines 41-44: the early return "unchanged".
IsUnchanged(dst, meta, content) ==
    /\ Exists(dst)
    /\ Exists(meta)
    /\ Data(meta).sha256 = sha256_bytes(content)

\* Lines 46-53: what is written to the meta file.  An existing, non-empty
\* metainfo keeps its source_url; only the sha256 is replaced.
NewMetaInfo(meta, source_url, content) ==
    IF Exists(meta)
    THEN [Data(meta) EXCEPT !.sha256 = sha256_bytes(content)]
    ELSE MetaInfo(source_url, sha256_bytes(content))

write_if_changed(source_url, content) ==
    /\ UNCHANGED <<seg_vars, chunk_vars, index_vars>>
    /\ IF IsUnchanged(dst_file, metainfo_file, content)
       THEN /\ UNCHANGED <<dst_file, metainfo_file>>
            /\ last_call' = <<[content |-> content, ret |-> FALSE,
                               pre_dst |-> dst_file, pre_meta |-> metainfo_file]>>
       ELSE /\ dst_file' = File(content)
            /\ metainfo_file' = File(NewMetaInfo(metainfo_file, source_url, content))
            /\ last_call' = <<[content |-> content, ret |-> TRUE,
                               pre_dst |-> dst_file, pre_meta |-> metainfo_file]>>

FetchOne == \E u \in SourceUrls, c \in Contents : write_if_changed(u, c)

\* The output directory before the fetch: either file may be missing; when
\* both are there the meta file was written by an earlier write_if_changed.
FetchIdle == dst_file = Absent /\ metainfo_file = Absent /\ last_call = <<>>

FetchInit ==
    /\ last_call = <<>>
    /\ \E c \in Contents, u \in SourceUrls :
          \/ dst_file = Absent /\ metainfo_file = Absent
          \/ dst_file = File(c) /\ metainfo_file = Absent
          \/ dst_file = Absent /\ metainfo_file = File(MetaInfo(u, sha256_bytes(c)))
          \/ dst_file = File(c) /\ metainfo_file = File(MetaInfo(u, sha256_bytes(c)))

(***************************************************************************)
(* chunk_docs.py                                                           *)
(* A string the code takes apart or builds is a sequence of characters.    *)
(* A markdown file is [ok, front, segs]: ok is FALSE when frontmatter.load *)
(* raises on it; front is <<>> or <<the front matter's source value>>;     *)
(* segs is what header_splitter.split_text returns for the content, each   *)
(* segment with its metadata (h1..h4, "" for a missing level) and the      *)
(* pieces char_splitter.split_text returns for its page_content.           *)
(***************************************************************************)
Whitespace == {" ", "\n", "\t"}

RECURSIVE DropLeadingWs(_)
DropLeadingWs(s) ==
    IF s # <<>> /\ Head(s) \in Whitespace THEN DropLeadingWs(Tail(s)) ELSE s

\* re.sub(r"\s+", " ", s): every maximal run of whitespace becomes one space.
RECURSIVE CollapseWs(_)
CollapseWs(s) ==
    IF s = <<>> THEN <<>>
    ELSE IF Head(s) \in Whitespace
         THEN <<" ">> \o CollapseWs(DropLeadingWs(s))
         ELSE <<Head(s)>> \o CollapseWs(Tail(s))

RECURSIVE DropTrailingWs(_)
DropTrailingWs(s) ==
    IF s # <<>> /\ s[Len(s)] \in Whitespace
    THEN DropTrailingWs(SubSeq(s, 1, Len(s) - 1))
    ELSE s

\* str.strip()
Strip(s) == DropTrailingWs(DropLeadingWs(s))

clean_text(s) == Strip(CollapseWs(s))

DigitChars == <<"0", "1", "2", "3", "4", "5", "6", "7", "8", "9">>

RECURSIVE Decimal(_)
Decimal(n) ==
    IF n < 10 THEN <<DigitChars[n + 1]>>
    ELSE Decimal(n \div 10) \o <<DigitChars[(n % 10) + 1]>>

\* The format spec 04d: decimal, zero-padded on the left to width 4.
Pad04(n) ==
    LET d == Decimal(n)
    IN  IF Len(d) >= 4 THEN d ELSE [i \in 1 .. (4 - Len(d)) |-> "0"] \o d

\* A variant of ChunkId that leaves the index out.
ChunkIdNoIndex(rel, chunk_idx) == rel \o <<":", ":">>

\* f"{rel}::{chunk_idx:04d}"
ChunkId(rel, chunk_idx) == rel \o <<":", ":">> \o Pad04(chunk_idx)

\* " > ".join(headers)
RECURSIVE Join(_)
Join(headers) ==
    IF Len(headers) = 0 THEN <<>>
    ELSE IF Len(headers) = 1 THEN <<headers[1]>>
    ELSE <<headers[1], " > ">> \o Join(Tail(headers))

\* Lines 50-51.  None is <<>>; a section is <<the joined string>>.
SectionOf(metadata) ==
    LET headers == SelectSeq(metadata, LAMBDA h : h # "")
    IN  IF headers # <<>> THEN <<Join(headers)>> ELSE <<>>

\* Lines 26-28.
read_md_clean(file) == [text |-> Data(file).segs, front_meta |-> Data(file).front]

\* Lines 58-65: the record yielded for a piece.
ChunkRecord(rel, source_url, section, chunk_idx, body) ==
    [id |-> ChunkId(rel, chunk_idx), rel |-> rel, source |-> source_url,
     section |-> section, chunk_index |-> chunk_idx, text |-> body]

\* A variant of PieceChunks in which a dropped piece takes an index too.
RECURSIVE PieceChunksSlot(_, _, _, _, _)
PieceChunksSlot(rel, source_url, section, pieces, chunk_idx) ==
    IF pieces = <<>> THEN <<>>
    ELSE LET body == clean_text(Head(pieces))
         IN  IF body = <<>>
             THEN PieceChunksSlot(rel, source_url, section, Tail(pieces), chunk_idx + 1)
             ELSE <<ChunkRecord(rel, source_url, section, chunk_idx, body)>>
                  \o PieceChunksSlot(rel, source_url, section, Tail(pieces), chunk_idx + 1)

\* Lines 54-66: the inner loop over the pieces of one header segment,
\* starting with the counter at chunk_idx.
RECURSIVE PieceChunks(_, _, _, _, _)
PieceChunks(rel, source_url, section, pieces, chunk_idx) ==
    IF pieces = <<>> THEN <<>>
    ELSE LET body == clean_text(Head(pieces))
         IN  IF body = <<>>
             THEN PieceChunks(rel, source_url, section, Tail(pieces), chunk_idx)
             ELSE <<ChunkRecord(rel, source_url, section, chunk_idx, body)>>
                  \o PieceChunks(rel, source_url, section, Tail(pieces), chunk_idx + 1)

\* Lines 47-66: the outer loop over header_docs; chunk_idx runs on across
\* the segments.
RECURSIVE HeaderChunks(_, _, _, _)
HeaderChunks(rel, source_url, header_docs, chunk_idx) ==
    IF header_docs = <<>> THEN <<>>
    ELSE LET hd == Head(header_docs)
             recs == PieceChunks(rel, source_url, SectionOf(hd.metadata),
                                 hd.pieces, chunk_idx)
         IN  recs \o HeaderChunks(rel, source_url, Tail(header_docs),
                                  chunk_idx + Len(recs))

\* chunk_one_file drained: everything the generator yields.  front_meta is
\* read (line 44) and used nowhere.
chunk_one_file(rel, source_url, file) ==
    IF ~Exists(file) THEN <<>>
    ELSE LET md == read_md_clean(file)
         IN  HeaderChunks(rel, source_url, md.text, 0)

\* A variant of Raises in which a missing file raises too.
RaisesOnMissing(file) == ~Exists(file) \/ ~Data(file).ok

\* chunk_one_file raises before its first yield when the file cannot be loaded.
Raises(file) == Exists(file) /\ ~Data(file).ok

\* ---- the inputs of the segmenter ----
MaxSegs == 2       \* header segments of a document
MaxPieces == 2     \* pieces of a header segment

SeqsUpTo(S, n) == UNION {[1 .. k -> S] : k \in 0 .. n}

PieceTexts == {<<" ", "\n">>, <<"\n", "a", " ", "\t", "b", " ">>}
Metadatas == {<<"", "", "", "">>, <<"T", "", "S", "">>}
FrontSources == {<<>>, <<"front-url">>}
ManifestUrls == {<<>>, <<"manifest-url">>}
TrickyRel == <<"a", ":", ":", "0", "0", "0", "0">>   \* a rel that reads like an id
Rels == {<<"a">>, <<"b">>, TrickyRel}

HeaderDocs == [metadata : Metadatas, pieces : SeqsUpTo(PieceTexts, MaxPieces)]
Documents == [ok : {TRUE}, front : FrontSources, segs : SeqsUpTo(HeaderDocs, MaxSegs)]

SegInputs == [rel : Rels, source_url : ManifestUrls,
              file : {Absent} \cup {File(d) : d \in Documents}]

SegIdle == seg_in = [rel |-> <<"a">>, source_url |-> <<>>, file |-> Absent] /\ seg_out = <<>>

SegInit == seg_in \in SegInputs /\ seg_out = <<>>

\* for rec in chunk_one_file(rel, src): ...  on a file that loads.
Segment ==
    /\ seg_out = <<>>
    /\ seg_out' = <<chunk_one_file(seg_in.rel, seg_in.source_url, seg_in.file)>>
    /\ UNCHANGED <<seg_in, fetch_vars, chunk_vars, index_vars>>

\* ---- main ----
MaxManifest == 3   \* lines of the manifest

BlankLine == [kind |-> "blank", rel |-> <<>>, source_url |-> <<>>]
\* a line json.loads rejects, or a JSON object without the key "rel"
BadLine == [kind |-> "bad", rel |-> <<>>, source_url |-> <<>>]
Entry(rel, url) == [kind |-> "entry", rel |-> rel, source_url |-> url]

ManifestLines == {BlankLine, BadLine, Entry(<<"a">>, <<"manifest-url">>), Entry(<<"b">>, <<>>),
                  Entry(TrickyRel, <<>>)}
Manifests == SeqsUpTo(ManifestLines, MaxManifest)

\* The files RAW_DIR may hold at a rel.
PlainDoc == [ok |-> TRUE, front |-> <<>>,
             segs |-> <<[metadata |-> <<"", "", "", "">>, pieces |-> <<<<"a">>>>]>>]
FrontDoc == [ok |-> TRUE, front |-> <<"front-url">>,
             segs |-> <<[metadata |-> <<"T", "", "", "">>,
                         pieces |-> <<<<" ", "\n">>, <<"a", "\n", "b">>>>],
                        [metadata |-> <<"T", "S", "", "">>,
                         pieces |-> <<<<"c", " ">>>>]>>]
BrokenDoc == [ok |-> FALSE, front |-> <<>>, segs |-> <<>>]
RawFiles == {Absent, File(PlainDoc), File(FrontDoc), File(BrokenDoc)}

\* What earlier runs may have left: the store of a successful run over a
\* one-document corpus, and the temporary file of a run that aborted.
PrevStore == chunk_one_file(<<"o">>, <<>>, File(FrontDoc))
StaleTmp == SubSeq(PrevStore, 1, 1)

Lines == Data(manifest_file)

\* Lines 70-77: the manifest must exist; tmp_path is opened for writing.
ChunkStart ==
    /\ cpc = "start"
    /\ IF ~Exists(manifest_file)
       THEN /\ cpc' = "aborted"
            /\ cerror' = "manifest"
            /\ UNCHANGED <<tmp_file, line_no, total_chunks>>
       ELSE /\ cpc' = "loop"
            /\ tmp_file' = File(<<>>)
            /\ line_no' = 1
            /\ total_chunks' = 0
            /\ UNCHANGED cerror
    /\ UNCHANGED <<manifest_file, raw, out_file, prev_out, fetch_vars, seg_vars, index_vars>>

\* Lines 79-81: a blank line is skipped.
ChunkSkipBlank ==
    /\ cpc = "loop" /\ line_no <= Len(Lines)
    /\ Lines[line_no].kind = "blank"
    /\ line_no' = line_no + 1
    /\ UNCHANGED <<manifest_file, raw, out_file, tmp_file, cpc, total_chunks, cerror,
                   prev_out, fetch_vars, seg_vars, index_vars>>

\* Lines 82-83: json.loads or entry["rel"] raises; main ends there.
ChunkBadLine ==
    /\ cpc = "loop" /\ line_no <= Len(Lines)
    /\ Lines[line_no].kind = "bad"
    /\ cpc' = "aborted"
    /\ cerror' = "line"
    /\ UNCHANGED <<manifest_file, raw, out_file, tmp_file, line_no, total_chunks,
                   prev_out, fetch_vars, seg_vars, index_vars>>

\* Lines 86, 44: chunk_one_file raises on a file that cannot be loaded.
ChunkBadDocument ==
    /\ cpc = "loop" /\ line_no <= Len(Lines)
    /\ Lines[line_no].kind = "entry"
    /\ Raises(raw[Lines[line_no].rel])
    /\ cpc' = "aborted"
    /\ cerror' = "document"
    /\ UNCHANGED <<manifest_file, raw, out_file, tmp_file, line_no, total_chunks,
                   prev_out, fetch_vars, seg_vars, index_vars>>

\* Lines 82-88: the records of one manifest entry are appended to tmp_path.
ChunkEntry ==
    /\ cpc = "loop" /\ line_no <= Len(Lines)
    /\ Lines[line_no].kind = "entry"
    /\ ~Raises(raw[Lines[line_no].rel])
    /\ LET entry == Lines[line_no]
           recs == chunk_one_file(entry.rel, entry.source_url, raw[entry.rel])
       IN  /\ tmp_file' = File(Data(tmp_file) \o recs)
           /\ total_chunks' = total_chunks + Len(recs)
    /\ line_no' = line_no + 1
    /\ UNCHANGED <<manifest_file, raw, out_file, cpc, cerror, prev_out,
                   fetch_vars, seg_vars, index_vars>>

\* A variant of EndOfManifest that lets the rename happen inside the loop.
EndOfManifestAnyTime == TRUE

\* The loop of line 78 has read every line.
EndOfManifest == line_no > Len(Lines)

\* Line 90: tmp_path.rename(OUT_PATH), after the with block.
ChunkRename ==
    /\ cpc = "loop"
    /\ EndOfManifest
    /\ out_file' = tmp_file
    /\ tmp_file' = Absent
    /\ cpc' = "done"
    /\ UNCHANGED <<manifest_file, raw, line_no, total_chunks, cerror, prev_out,
                   fetch_vars, seg_vars, index_vars>>

\* Line 90 where Path.rename does not replace an existing target (Windows):
\* it raises FileExistsError and OUT_PATH stays.
ChunkRenameFails ==
    /\ cpc = "loop"
    /\ EndOfManifest
    /\ Exists(out_file)
    /\ cpc' = "aborted"
    /\ cerror' = "rename"
    /\ UNCHANGED <<manifest_file, raw, out_file, tmp_file, line_no, total_chunks,
                   prev_out, fetch_vars, seg_vars, index_vars>>

ChunkIdle ==
    /\ manifest_file = Absent /\ raw = [r \in Rels |-> Absent]
    /\ out_file = Absent /\ tmp_file = Absent /\ cpc = "done" /\ line_no = 0
    /\ total_chunks = 0 /\ cerror = "" /\ prev_out = Absent

ChunkInit ==
    /\ manifest_file \in {Absent} \cup {File(m) : m \in Manifests}
    /\ raw \in [Rels -> RawFiles]
    /\ out_file \in {Absent, File(PrevStore)}
    /\ tmp_file \in {Absent, File(StaleTmp)}
    /\ cpc = "start" /\ line_no = 0 /\ total_chunks = 0 /\ cerror = ""
    /\ prev_out = out_file

ChunkNext ==
    \/ ChunkStart
    \/ ChunkSkipBlank
    \/ ChunkBadLine
    \/ ChunkBadDocument
    \/ ChunkEntry
    \/ ChunkRename
    \/ ChunkRenameFails

(***************************************************************************)
(* build_index.py                                                          *)
(* A vector is [of, unit]: of is the input text the embedding model        *)
(* computed it from, unit says whether it has been L2-normalized.  The     *)
(* FAISS index holds vectors only, no ids.                                 *)
(***************************************************************************)
BATCH == 128
EMBED_MODEL == "text-embedding-3-small"

MaxChunks == 257   \* records in the chunk store: two full batches and one more

Min(a, b) == IF a < b THEN a ELSE b

\* The i-th record of a chunk store (the fields main reads): distinct texts,
\* and a section that is null, plain, or padded with whitespace.
StoredSections == <<<<>>, <<<<"T">>>>, <<<<" ", "S", " ">>>>>>
StoredChunk(i) ==
    [id |-> ChunkId(<<"a">>, i - 1),
     section |-> StoredSections[(i % 3) + 1],
     text |-> Decimal(i)]
Store(n) == [i \in 1 .. n |-> StoredChunk(i)]

\* Lines 43-45.
EmbedInput(rec) ==
    LET prefix == Strip(IF rec.section = <<>> THEN <<>> ELSE rec.section[1])
    IN  IF prefix # <<>> THEN prefix \o <<"\n", "\n">> \o rec.text ELSE rec.text

Embedding(text) == [of |-> text, unit |-> FALSE]

\* faiss.normalize_L2, row by row.
normalize_L2(rows) == [r \in 1 .. Len(rows) |-> [rows[r] EXCEPT !.unit = TRUE]]

\* texts[i:i + BATCH]
Batch(list, i) == SubSeq(list, i + 1, Min(i + BATCH, Len(list)))

\* Lines 20-23: what embed_texts returns for a batch.  The code takes
\* whatever resp.data holds: one vector per input, in input order, or, from a
\* service that does not honour that, one vector fewer or one more (a
\* response is taken to hold at least one vector).
Complete(batch) == [j \in 1 .. Len(batch) |-> Embedding(batch[j])]
Responses(batch) ==
    {Complete(batch), Complete(batch) \o <<Embedding(<<"?">>)>>}
        \cup (IF Len(batch) >= 2
              THEN {SubSeq(Complete(batch), 1, Len(batch) - 1)}
              ELSE {})

\* np.vstack
RECURSIVE vstack(_)
vstack(arrays) == IF arrays = <<>> THEN <<>> ELSE Head(arrays) \o vstack(Tail(arrays))

\* Lines 30-46: the chunk store must exist; ids and texts are read from it.
IndexStart ==
    /\ ipc = "start"
    /\ IF ~Exists(chunks_file)
       THEN /\ ipc' = "failed"
            /\ ierror' = "chunks"
            /\ UNCHANGED <<ids, texts>>
       ELSE /\ ipc' = "embed"
            /\ ids' = [k \in 1 .. Len(Data(chunks_file)) |-> Data(chunks_file)[k].id]
            /\ texts' = [k \in 1 .. Len(Data(chunks_file)) |->
                            EmbedInput(Data(chunks_file)[k])]
            /\ UNCHANGED ierror
    /\ UNCHANGED <<chunks_file, index_file, meta_file, offset, all_vecs, X, index,
                   requests, pre_index, pre_meta, fetch_vars, seg_vars, chunk_vars>>

\* Lines 50-53: one turn of the loop, the request answered.
EmbedBatch ==
    /\ ipc = "embed" /\ offset < Len(texts)
    /\ \E vecs \in Responses(Batch(texts, offset)) :
          all_vecs' = Append(all_vecs, vecs)
    /\ requests' = Append(requests, offset)
    /\ offset' = offset + BATCH
    /\ UNCHANGED <<chunks_file, index_file, meta_file, ipc, ids, texts, X, index,
                   ierror, pre_index, pre_meta, fetch_vars, seg_vars, chunk_vars>>

\* A variant of EmbedFails that saves the vectors embedded so far.
EmbedFailsSavingPartial ==
    /\ ipc = "embed" /\ offset < Len(texts)
    /\ requests' = Append(requests, offset)
    /\ ipc' = "failed"
    /\ ierror' = "embed"
    /\ index_file' = File(normalize_L2(vstack(all_vecs)))
    /\ UNCHANGED <<chunks_file, meta_file, ids, texts, offset, all_vecs, X,
                   index, pre_index, pre_meta, fetch_vars, seg_vars, chunk_vars>>

\* Line 52: the request raises; nothing in main catches it.
EmbedFails ==
    /\ ipc = "embed" /\ offset < Len(texts)
    /\ requests' = Append(requests, offset)
    /\ ipc' = "failed"
    /\ ierror' = "embed"
    /\ UNCHANGED <<chunks_file, index_file, meta_file, ids, texts, offset, all_vecs, X,
                   index, pre_index, pre_meta, fetch_vars, seg_vars, chunk_vars>>

\* Line 54: np.vstack raises on an empty list (an empty chunk store).
Stack ==
    /\ ipc = "embed" /\ offset >= Len(texts)
    /\ IF all_vecs = <<>>
       THEN /\ ipc' = "failed"
            /\ ierror' = "stack"
            /\ UNCHANGED X
       ELSE /\ ipc' = "build"
            /\ X' = vstack(all_vecs)
            /\ UNCHANGED ierror
    /\ UNCHANGED <<chunks_file, index_file, meta_file, ids, texts, offset, all_vecs,
                   index, requests, pre_index, pre_meta, fetch_vars, seg_vars,
                   chunk_vars>>

\* Lines 58-61: X is normalized in place and added to a new index.
Build ==
    /\ ipc = "build"
    /\ X' = normalize_L2(X)
    /\ index' = normalize_L2(X)
    /\ ipc' = "save_index"
    /\ UNCHANGED <<chunks_file, index_file, meta_file, ids, texts, offset, all_vecs,
                   ierror, requests, pre_index, pre_meta, fetch_vars, seg_vars,
                   chunk_vars>>

\* Line 64: faiss.write_index.
SaveIndex ==
    /\ ipc = "save_index"
    /\ index_file' = File(index)
    /\ ipc' = "save_meta"
    /\ UNCHANGED <<chunks_file, meta_file, ids, texts, offset, all_vecs, X, index,
                   ierror, requests, pre_index, pre_meta, fetch_vars, seg_vars,
                   chunk_vars>>

\* Lines 65-70: pickle.dump of the ids and the model name.
SaveMeta ==
    /\ ipc = "save_meta"
    /\ meta_file' = File([ids |-> ids, model |-> EMBED_MODEL])
    /\ ipc' = "done"
    /\ UNCHANGED <<chunks_file, index_file, ids, texts, offset, all_vecs, X, index,
                   ierror, requests, pre_index, pre_meta, fetch_vars, seg_vars,
                   chunk_vars>>

\* Between lines 64 and 69: the process ends (killed, or open() raises)
\* after the index file was written and before the meta file is.
Interrupted ==
    /\ ipc = "save_meta"
    /\ ipc' = "failed"
    /\ ierror' = "interrupted"
    /\ UNCHANGED <<chunks_file, index_file, meta_file, ids, texts, offset, all_vecs, X,
                   index, requests, pre_index, pre_meta, fetch_vars, seg_vars,
                   chunk_vars>>

\* The pair an earlier, successful build over a two-record store left.
OldIndex == normalize_L2(Complete([k \in 1 .. 2 |-> EmbedInput(Store(2)[k])]))
OldMeta == [ids |-> [k \in 1 .. 2 |-> Store(2)[k].id], model |-> EMBED_MODEL]

IndexIdle ==
    /\ chunks_file = Absent /\ index_file = Absent /\ meta_file = Absent
    /\ ipc = "done" /\ ids = <<>> /\ texts = <<>> /\ offset = 0 /\ all_vecs = <<>>
    /\ X = <<>> /\ index = <<>> /\ ierror = "" /\ requests = <<>>
    /\ pre_index = Absent /\ pre_meta = Absent

IndexInit ==
    /\ chunks_file \in {Absent} \cup {File(Store(n)) : n \in 0 .. MaxChunks}
    /\ \/ index_file = Absent /\ meta_file = Absent
       \/ index_file = File(OldIndex) /\ meta_file = File(OldMeta)
    /\ pre_index = index_file /\ pre_meta = meta_file
    /\ ipc = "start" /\ ids = <<>> /\ texts = <<>> /\ offset = 0 /\ all_vecs = <<>>
    /\ X = <<>> /\ index = <<>> /\ ierror = "" /\ requests = <<>>

IndexNext ==
    \/ IndexStart
    \/ EmbedBatch
    \/ EmbedFails
    \/ Stack
    \/ Build
    \/ SaveIndex
    \/ SaveMeta
    \/ Interrupted

(***************************************************************************)
(* Specifications                                                          *)
(***************************************************************************)
\* Each specification runs one program; the state of the others stays idle.
InitFetch == FetchInit /\ SegIdle /\ ChunkIdle /\ IndexIdle
InitSegment == SegInit /\ FetchIdle /\ ChunkIdle /\ IndexIdle
InitChunk == ChunkInit /\ FetchIdle /\ SegIdle /\ IndexIdle
InitIndex == IndexInit /\ FetchIdle /\ SegIdle /\ ChunkIdle

SpecFetch == InitFetch /\ [][FetchOne]_vars
SpecSegment == InitSegment /\ [][Segment]_vars
SpecChunk == InitChunk /\ [][ChunkNext]_vars
SpecIndex == InitIndex /\ [][IndexNext]_vars

(***************************************************************************)
(* Claims on chunk_docs.py                                                 *)
(***************************************************************************)
\* What a run that reads every line of the manifest writes, as a function of
\* the manifest and the raw directory.
RECURSIVE RunOutput(_, _)
RunOutput(lines, dir) ==
    IF lines = <<>> THEN <<>>
    ELSE LET l == Head(lines)
         IN  (IF l.kind = "entry"
              THEN chunk_one_file(l.rel, l.source_url, dir[l.rel])
              ELSE <<>>) \o RunOutput(Tail(lines), dir)

IsMissingEntry(l) == l.kind = "entry" /\ ~Exists(raw[l.rel])
Fatal(l) == l.kind = "bad" \/ (l.kind = "entry" /\ Raises(raw[l.rel]))
Ids(store) == {store[i].id : i \in 1 .. Len(store)}
IdsDistinct(store) == Cardinality(Ids(store)) = Len(store)
DistinctRels(lines) ==
    \A i, j \in 1 .. Len(lines) :
        (i # j /\ lines[i].kind = "entry" /\ lines[j].kind = "entry")
            => lines[i].rel # lines[j].rel

\* C1: the chunk store is written atomically per run.  While main runs, and
\* after it raised, OUT_PATH is what it was when main started (absent or the
\* complete store of an earlier run); once main has finished, OUT_PATH is the
\* complete store of this run, every manifest line has been read and none of
\* them was fatal.
C1_AtomicStore ==
    /\ prev_out \in {Absent, File(PrevStore)}
    /\ cpc # "done" => out_file = prev_out
    /\ cpc = "done" =>
          /\ line_no = Len(Lines) + 1
          /\ \A i \in 1 .. Len(Lines) : ~Fatal(Lines[i])
          /\ out_file = File(RunOutput(Lines, raw))

\* C1 witness: a run aborted after it had written records of an earlier
\* entry to the temporary file, with a previous store in place.
C1_Witness ==
    /\ cpc = "aborted" /\ cerror \in {"line", "document"}
    /\ line_no > 1 /\ Exists(tmp_file) /\ Len(Data(tmp_file)) > 0
    /\ out_file = File(PrevStore)

\* C5 as stated: whatever the manifest, the ids of the store a run wrote are
\* pairwise distinct.
C5_IdsDistinctAnyManifest ==
    cpc = "done" => IdsDistinct(Data(out_file))

\* C5 amended: when the entries of the manifest have pairwise distinct rel
\* values, the ids of the store a run wrote are pairwise distinct.
C5_IdsDistinctForDistinctRels ==
    (cpc = "done" /\ DistinctRels(Lines)) => IdsDistinct(Data(out_file))

\* C5 witness: a finished run over distinct rels, one of which reads like an
\* id of another, that wrote at least three records.
C5_Witness ==
    /\ cpc = "done" /\ DistinctRels(Lines)
    /\ Len(Data(out_file)) >= 3
    /\ \E i, j \in 1 .. Len(Lines) :
          /\ Lines[i].kind = "entry" /\ Lines[i].rel = <<"a">>
          /\ Lines[j].kind = "entry" /\ Lines[j].rel = TrickyRel
          /\ Exists(raw[<<"a">>]) /\ Exists(raw[TrickyRel])

\* C6: the chunk_index values of the records chunk_one_file yields for one
\* document are 0, 1, 2, ... in emission order, whatever pieces were dropped.
C6_Contiguous ==
    seg_out # <<>> =>
        \A i \in 1 .. Len(seg_out[1]) : seg_out[1][i].chunk_index = i - 1

\* C6 witness: two header segments, a piece dropped between two emitted ones.
C6_Witness ==
    /\ seg_out # <<>> /\ Len(seg_out[1]) >= 2
    /\ Exists(seg_in.file)
    /\ LET segs == Data(seg_in.file).segs
       IN  /\ Len(segs) = 2
           /\ Len(segs[1].pieces) = 2
           /\ clean_text(segs[1].pieces[1]) # <<>>
           /\ clean_text(segs[1].pieces[2]) = <<>>
           /\ Len(segs[2].pieces) >= 1
           /\ clean_text(segs[2].pieces[1]) # <<>>

\* C8: a manifest entry whose file is missing is not fatal: main never raises
\* at such an entry, and the store of a finished run is the store the run
\* would write for the manifest without the entries whose file is missing.
C8_MissingFileSkipped ==
    /\ (cpc = "aborted" /\ cerror \in {"line", "document"}) =>
          ~IsMissingEntry(Lines[line_no])
    /\ cpc = "done" =>
          out_file = File(RunOutput(SelectSeq(Lines, LAMBDA l : ~IsMissingEntry(l)), raw))

\* C8 witness: a finished run whose manifest names a missing file before a
\* file that yields records.
C8_Witness ==
    /\ cpc = "done"
    /\ \E i, j \in 1 .. Len(Lines) :
          /\ i < j
          /\ IsMissingEntry(Lines[i])
          /\ Lines[j].kind = "entry" /\ Exists(raw[Lines[j].rel])
    /\ Len(Data(out_file)) > 0

\* C9: the source of every record is the front matter's source value when the
\* document has one, and the manifest's source_url otherwise.
C9_FrontMatterOverrides ==
    (seg_out # <<>> /\ Exists(seg_in.file)) =>
        \A i \in 1 .. Len(seg_out[1]) :
            seg_out[1][i].source =
                (IF Data(seg_in.file).front # <<>>
                 THEN Data(seg_in.file).front
                 ELSE seg_in.source_url)

(***************************************************************************)
(* Claims on fetch_docs.py                                                 *)
(***************************************************************************)
\* C10: a call returns False and leaves both files as they were exactly when
\* the destination and the meta file both existed and the recorded sha256 was
\* the sha256 of the given content; every other call writes the content,
\* records its sha256 and returns True; after a call the recorded sha256 is
\* the sha256 of the destination's content.
C10_WriteIfChanged ==
    last_call # <<>> =>
        LET call == last_call[1]
            same == /\ Exists(call.pre_dst)
                    /\ Exists(call.pre_meta)
                    /\ Data(call.pre_meta).sha256 = sha256_bytes(call.content)
        IN  /\ same => /\ call.ret = FALSE
                       /\ dst_file = call.pre_dst
                       /\ metainfo_file = call.pre_meta
            /\ ~same => /\ call.ret = TRUE
                        /\ dst_file = File(call.content)
                        /\ Exists(metainfo_file)
                        /\ Data(metainfo_file).sha256 = sha256_bytes(call.content)
            /\ Exists(dst_file) /\ Exists(metainfo_file)
            /\ Data(metainfo_file).sha256 = sha256_bytes(Data(dst_file))

\* C10 witness: a call that found both files in place with the recorded
\* sha256 equal to that of its content, and returned False.
C10_Witness ==
    /\ last_call # <<>>
    /\ last_call[1].ret = FALSE
    /\ dst_file = last_call[1].pre_dst
    /\ Exists(metainfo_file)
    /\ Data(metainfo_file).sha256 = sha256_bytes(last_call[1].content)

(***************************************************************************)
(* Claims on build_index.py                                                *)
(***************************************************************************)
NumBatches(n) == (n + BATCH - 1) \div BATCH
Persisting == ipc \in {"save_index", "save_meta", "done"} \/ ierror = "interrupted"
Stacked == ipc \in {"build", "save_index", "save_meta", "done"} \/ ierror = "interrupted"

\* C2: whenever the index file or the metadata file is written, the matrix,
\* the id list and the index have the same number of entries.
C2_AlignedBeforePersistence ==
    Persisting => (Len(X) = Len(ids) /\ Len(ids) = Len(index))

\* C3: when the embedding request of a batch fails, main fails without asking
\* for that batch again and leaves the index file and the metadata file as
\* they were before the run.
C3_EmbedFailurePersistsNothing ==
    (ipc = "failed" /\ ierror = "embed") =>
        /\ index_file = pre_index
        /\ meta_file = pre_meta
        /\ requests[Len(requests)] = offset
        /\ \A a, b \in 1 .. Len(requests) : a # b => requests[a] # requests[b]

\* C3 witness: the request of a middle batch failed, after an earlier batch
\* was embedded, with the pair of an earlier build on disk.
C3_Witness ==
    /\ ipc = "failed" /\ ierror = "embed"
    /\ Len(all_vecs) = 1 /\ Len(texts) > 2 * BATCH
    /\ index_file = File(OldIndex) /\ meta_file = File(OldMeta)

\* The pair (index file, metadata file) a complete build over store leaves.
BuiltFrom(store) ==
    /\ index_file = File(normalize_L2(Complete([k \in 1 .. Len(store) |->
                                                   EmbedInput(store[k])])))
    /\ meta_file = File([ids |-> [k \in 1 .. Len(store) |-> store[k].id],
                         model |-> EMBED_MODEL])

\* C4: after a run, finished or failed, the index file and the metadata file
\* are a matched pair: both absent, or both built from the same chunk store,
\* so that the metadata lists as many ids as the index holds vectors and the
\* id at position i is the id of the chunk whose vector is the i-th.
C4_MatchedPair ==
    ipc \in {"done", "failed"} =>
        \/ index_file = Absent /\ meta_file = Absent
        \/ BuiltFrom(Store(2))
        \/ Exists(chunks_file) /\ BuiltFrom(Data(chunks_file))

\* C7: once every batch is embedded, ceil(N/B) requests were sent, for the
\* offsets 0, B, 2B, ..., each batch holding at most B inputs and only the
\* last possibly fewer, and row i of the matrix is the vector returned for
\* the i-th text, for every i below N.
C7_BatchingPreservesOrder ==
    Stacked =>
        /\ Len(requests) = NumBatches(Len(texts))
        /\ \A k \in 1 .. Len(requests) :
              /\ requests[k] = (k - 1) * BATCH
              /\ Len(Batch(texts, requests[k])) <= BATCH
              /\ k < Len(requests) => Len(Batch(texts, requests[k])) = BATCH
        /\ vstack([k \in 1 .. Len(requests) |-> Batch(texts, requests[k])]) = texts
        /\ Len(X) = Len(texts)
        /\ \A i \in 1 .. Len(texts) :
              LET k == ((i - 1) \div BATCH) + 1
                  j == ((i - 1) % BATCH) + 1
              IN  /\ j <= Len(all_vecs[k])
                  /\ X[i].of = all_vecs[k][j].of
                  /\ X[i].of = texts[i]

\* Every response held one vector per input of its batch.
ResponsesComplete ==
    \A k \in 1 .. Len(all_vecs) : Len(all_vecs[k]) = Len(Batch(texts, requests[k]))

\* C7 and C2 in the runs in which every response was complete.
AlignedWhenResponsesComplete ==
    ResponsesComplete => (C7_BatchingPreservesOrder /\ C2_AlignedBeforePersistence)

====
